---- MODULE Spec2Model ----
(***************************************************************************)
(* Model of the ArtistScore scoring service: the four collectors, the      *)
(* sentiment analyzer, the score calculator and the orchestration in       *)
(* ArtistScoringService.get_artist_score.                                  *)
(*                                                                         *)
(* Representation.                                                         *)
(*  - Scores are fixed-point, in thousandths of a point: 100 points is     *)
(*    100000.  Weights are in ten-thousandths (0.35 is 3500).  The         *)
(*    quotient total_score / available_weight is kept as the exact         *)
(*    fraction [num, den]; round(x, 1) yields tenths of a point and        *)
(*    round(x, 2) yields hundredths.                                       *)
(*  - Optional[T] is a sequence: <<>> is None, <<x>> is the value x.       *)
(*  - A Python string is the tuple of its parts: "" is <<>>, a literal is   *)
(*    <<"text">> and an f-string is the concatenation of its parts.        *)
(*  - math.log10 is a table in thousandths over the values the model uses. *)
(***************************************************************************)
EXTENDS Integers, Sequences, FiniteSets, TLC

VARIABLES
    world,          \* what the external services answer (fixed for a run)
    pc,             \* position of the current get_artist_score invocation
    artist_name,    \* its arguments
    include_details,
    tasks,          \* state of each of the four gathered safe_collect tasks
    results,        \* the gather result list, by position
    sentiment_data, \* result of analyze_articles, <<>> before it ran
    ai_summary,     \* summary text
    response,       \* keyword arguments calculate_final_score hands to ArtistScoreResponse
    outcome,        \* how the invocation ended: [kind, error]
    calls,          \* per request: how many times each collaborator was started
    access_token,   \* ChartmetricCollector._access_token (process-wide)
    first,          \* observable result of the first finished request, <<>> before
    nreq,           \* number of finished requests
    clock,          \* datetime.utcnow()
    inorder,        \* the tasks of this request finished in the order they were created
    _service_instance, \* the global of app/api/routes.py
    dep,            \* each request thread's position in get_scoring_service
    constructed,    \* how many ArtistScoringService objects were constructed
    fn_in,          \* input of the pure function under test
    fn_out          \* its output

vars == <<world, pc, artist_name, include_details, tasks, results, sentiment_data,
          ai_summary, response, outcome, calls, access_token, first, nreq, clock,
          inorder, _service_instance, dep, constructed, fn_in, fn_out>>

\* the state of get_scoring_service
svcvars == <<_service_instance, dep, constructed>>

\* the state of the get_artist_score invocations
flowvars == <<world, pc, artist_name, include_details, tasks, results, sentiment_data,
              ai_summary, response, outcome, calls, access_token, first, nreq, clock,
              inorder>>

reqvars == <<flowvars, svcvars>>

-----------------------------------------------------------------------------
(* Bounds of the model *)

MaxRequests == 2
MaxThreads == 3

-----------------------------------------------------------------------------
(* Generic helpers *)

None == <<>>
Some(x) == <<x>>
IsNone(o) == o = <<>>
Min(a, b) == IF a <= b THEN a ELSE b
Max(a, b) == IF a >= b THEN a ELSE b

\* Python truthiness of an Optional[str]: None and "" are falsy
EmptyStr == <<>>
Str(text) == <<text>>
TruthyStr(o) == o # <<>> /\ o[1] # <<>>
\* a test for None only: 0 counts as a value
IsNotNone(o) == o # <<>>
\* Python truthiness of an Optional[int]/Optional[float]: None and 0 are falsy
TruthyNum(o) == o # <<>> /\ o[1] # 0
OrStrDefaultOnly(o, d) == d

\* Python `a or b` on an Optional[str] a and a str b
OrStr(o, d) == IF TruthyStr(o) THEN o[1] ELSE d

Sources == <<"youtube", "spotify", "chartmetric", "brave">>
SourceSet == {"youtube", "spotify", "chartmetric", "brave"}

-----------------------------------------------------------------------------
(* app/models/base.py *)

SUCCESS == "success"
PARTIAL == "partial"
FAILED == "failed"
CollectorStatus == {SUCCESS, PARTIAL, FAILED}

-----------------------------------------------------------------------------
(* app/analyzers/score_calculator.py: constants *)

\* in ten-thousandths: 0.35 is 3500
WEIGHTS == [spotify |-> 3500, youtube |-> 3000, chartmetric |-> 2500,
            sentiment |-> 700, web_presence |-> 300]

SUBSCRIBER_THRESHOLDS == [min |-> 1000, max |-> 50000000]
FOLLOWER_THRESHOLDS == [min |-> 5000, max |-> 200000000]
VIEW_THRESHOLDS == [min |-> 10000, max |-> 100000000]
NEWS_THRESHOLDS == [min |-> 1, max |-> 50]
LISTENER_THRESHOLDS == [min |-> 10000, max |-> 100000000]

\* math.log10, in thousandths, over the values the model draws. The result has a
\* finite precision, as a float has: numbers close enough get the same logarithm
\* (1000000, 1000001 and 1000002 at three decimals; 10**15, 10**15 + 1 and
\* 10**15 + 2 in double precision).
Log10Milli(v) ==
    CASE v = 1000 -> 3000
      [] v = 5000 -> 3699
      [] v = 10000 -> 4000
      [] v = 100000 -> 5000
      [] v = 1000000 -> 6000
      [] v = 1000001 -> 6000
      [] v = 1000002 -> 6000
      [] v = 2000000 -> 6301
      [] v = 50000000 -> 7699
      [] v = 100000000 -> 8000
      [] v = 200000000 -> 8301

_log_normalize(value, min_val, max_val) ==
    IF value <= min_val THEN 0
    ELSE IF value >= max_val THEN 100000
    ELSE ((Log10Milli(value) - Log10Milli(min_val)) * 100000)
            \div (Log10Milli(max_val) - Log10Milli(min_val))

\* line 61 divides by log_max - log_min, which is 0.0 when the two logarithms are
\* the same float
LogDivisionByZero(value, min_val, max_val) ==
    value > min_val /\ value < max_val /\ Log10Milli(max_val) = Log10Milli(min_val)

_linear_normalize(value, min_val, max_val) ==
    IF value <= min_val THEN 0
    ELSE IF value >= max_val THEN 100000
    ELSE ((value - min_val) * 100000) \div (max_val - min_val)

ScoreComponent(name, weight, raw_value, normalized_score, status, reasoning) ==
    [name |-> name, weight |-> weight, raw_value |-> raw_value,
     normalized_score |-> normalized_score, status |-> status,
     reasoning |-> reasoning]

\* the upper clamp every scorer applies: min(total, 100)
ClampHigh(total) == Min(total, 100000)

_calculate_spotify_score(data) ==
    IF data.status = FAILED \/ IsNone(data.artist_stats)
    THEN ScoreComponent("Spotify", WEIGHTS.spotify, None, 0, "failed",
             OrStr(data.error_message, <<"Unable to retrieve Spotify data">>))
    ELSE LET stats == data.artist_stats[1]
             popularity_component == stats.popularity * 600
             follower_score == _log_normalize(stats.followers,
                                   FOLLOWER_THRESHOLDS.min, FOLLOWER_THRESHOLDS.max)
             follower_component == (follower_score * 40) \div 100
             total == popularity_component + follower_component
         IN ScoreComponent("Spotify", WEIGHTS.spotify, Some(stats.popularity),
                ClampHigh(total), "success",
                <<"Popularity", stats.popularity, "Followers", stats.followers>>)

_calculate_youtube_score(data) ==
    IF data.status = FAILED \/ IsNone(data.channel_stats)
    THEN ScoreComponent("YouTube", WEIGHTS.youtube, None, 0, "failed",
             OrStr(data.error_message, <<"Unable to retrieve YouTube data">>))
    ELSE LET stats == data.channel_stats[1]
             sub_score == _log_normalize(stats.subscriber_count,
                              SUBSCRIBER_THRESHOLDS.min, SUBSCRIBER_THRESHOLDS.max)
             sub_component == (sub_score * 40) \div 100
             view_score == _log_normalize(stats.avg_views_per_video,
                               VIEW_THRESHOLDS.min, VIEW_THRESHOLDS.max)
             view_component == (view_score * 35) \div 100
             engagement_component == Min(stats.engagement_rate * 1000, 25000)
             total == sub_component + view_component + engagement_component
         IN ScoreComponent("YouTube", WEIGHTS.youtube, Some(stats.subscriber_count),
                ClampHigh(total), "success",
                <<"Subscribers", stats.subscriber_count, "Avg Views",
                  stats.avg_views_per_video, "Engagement", stats.engagement_rate>>)

\* a rank curve without the floor of its last branch
RankScoreNoFloor(rank) ==
    IF rank <= 10 THEN 100000 - (rank - 1) * 1000
    ELSE IF rank <= 100 THEN 90000 - ((rank - 10) * 10000) \div 90
    ELSE IF rank <= 1000 THEN 80000 - ((rank - 100) * 20000) \div 900
    ELSE 60000 - ((rank - 1000) * 40) \div 9

\* the rank-to-score curve of _calculate_chartmetric_score
RankScore(rank) ==
    IF rank <= 10 THEN 100000 - (rank - 1) * 1000
    ELSE IF rank <= 100 THEN 90000 - ((rank - 10) * 10000) \div 90
    ELSE IF rank <= 1000 THEN 80000 - ((rank - 100) * 20000) \div 900
    ELSE Max(60000 - ((rank - 1000) * 40) \div 9, 20000)

\* a Chartmetric scorer that reports a bundle without any sub-signal as failed
_calculate_chartmetric_score_failed_empty(data) ==
    IF data.status = FAILED \/ IsNone(data.artist_stats)
    THEN ScoreComponent("Chartmetric", WEIGHTS.chartmetric, None, 0, "failed",
             OrStr(data.error_message, <<"Unable to retrieve Chartmetric data">>))
    ELSE LET stats == data.artist_stats[1]
             hasRank == TruthyNum(stats.cm_artist_rank)
             hasScore == TruthyNum(stats.cm_artist_score)
             hasMl == TruthyNum(stats.sp_monthly_listeners)
             r1 == IF hasRank
                   THEN <<"Global Rank", stats.cm_artist_rank[1]>> ELSE <<>>
             r2 == IF hasScore
                   THEN <<"CM Score", stats.cm_artist_score[1]>> ELSE <<>>
             r3 == IF hasMl
                   THEN <<"Monthly Listeners", stats.sp_monthly_listeners[1]>> ELSE <<>>
             total == (IF hasRank THEN RankScore(stats.cm_artist_rank[1]) \div 2 ELSE 0)
                      + (IF hasScore THEN stats.cm_artist_score[1] * 300 ELSE 0)
                      + (IF hasMl
                         THEN (_log_normalize(stats.sp_monthly_listeners[1],
                                  LISTENER_THRESHOLDS.min, LISTENER_THRESHOLDS.max) * 20)
                                \div 100
                         ELSE 0)
         IN IF ~(hasRank \/ hasScore \/ hasMl)
            THEN ScoreComponent("Chartmetric", WEIGHTS.chartmetric, None, 0,
                     "failed", <<"Unable to retrieve Chartmetric data">>)
            ELSE ScoreComponent("Chartmetric", WEIGHTS.chartmetric,
                     Some(IF hasRank THEN stats.cm_artist_rank[1] ELSE 0),
                     ClampHigh(total), "success", r1 \o r2 \o r3)

_calculate_chartmetric_score(data) ==
    IF data.status = FAILED \/ IsNone(data.artist_stats)
    THEN ScoreComponent("Chartmetric", WEIGHTS.chartmetric, None, 0, "failed",
             OrStr(data.error_message, <<"Unable to retrieve Chartmetric data">>))
    ELSE LET stats == data.artist_stats[1]
             hasRank == TruthyNum(stats.cm_artist_rank)
             hasScore == TruthyNum(stats.cm_artist_score)
             hasMl == TruthyNum(stats.sp_monthly_listeners)
             c1 == IF hasRank
                   THEN <<RankScore(stats.cm_artist_rank[1]) \div 2>> ELSE <<>>
             r1 == IF hasRank
                   THEN <<"Global Rank", stats.cm_artist_rank[1]>> ELSE <<>>
             c2 == IF hasScore
                   THEN <<stats.cm_artist_score[1] * 300>> ELSE <<>>
             r2 == IF hasScore
                   THEN <<"CM Score", stats.cm_artist_score[1]>> ELSE <<>>
             c3 == IF hasMl
                   THEN <<(_log_normalize(stats.sp_monthly_listeners[1],
                              LISTENER_THRESHOLDS.min, LISTENER_THRESHOLDS.max) * 20)
                            \div 100>>
                   ELSE <<>>
             r3 == IF hasMl
                   THEN <<"Monthly Listeners", stats.sp_monthly_listeners[1]>> ELSE <<>>
             components == c1 \o c2 \o c3
             reasoning_parts == r1 \o r2 \o r3
             total == (IF hasRank THEN c1[1] ELSE 0) + (IF hasScore THEN c2[1] ELSE 0)
                      + (IF hasMl THEN c3[1] ELSE 0)
         IN IF components = <<>>
            THEN ScoreComponent("Chartmetric", WEIGHTS.chartmetric, None, 50000,
                     "partial", <<"Limited Chartmetric data available">>)
            ELSE ScoreComponent("Chartmetric", WEIGHTS.chartmetric,
                     Some(IF hasRank THEN stats.cm_artist_rank[1] ELSE 0),
                     ClampHigh(total), "success", reasoning_parts)

_calculate_web_presence_score(data) ==
    IF data.status = FAILED
    THEN ScoreComponent("Web Presence", WEIGHTS.web_presence, None, 0, "failed",
             OrStr(data.error_message, <<"Unable to retrieve web presence data">>))
    ELSE LET news_score == _linear_normalize(data.recent_news_count,
                               NEWS_THRESHOLDS.min, NEWS_THRESHOLDS.max)
         IN ScoreComponent("Web Presence", WEIGHTS.web_presence,
                Some(data.recent_news_count), news_score,
                IF data.recent_news_count > 0 THEN "success" ELSE "partial",
                <<"recent news articles found", data.recent_news_count>>)

\* a sentiment scorer that reports an empty sample as failed
_calculate_sentiment_score_failed_default(sentiment) ==
    LET base_score == (sentiment.overall_score + 100) * 500
        weighted_score == (base_score * sentiment.confidence) \div 100
        concern_penalty == Len(sentiment.brand_safety_concerns) * 5000
        final_score == Max(weighted_score - concern_penalty, 0)
        status == IF sentiment.sample_size > 0 THEN "success" ELSE "failed"
    IN ScoreComponent("Sentiment", WEIGHTS.sentiment, Some(sentiment.overall_score),
           Min(final_score, 100000), status,
           <<sentiment.overall_category, "Confidence", sentiment.confidence,
             "Sample", sentiment.sample_size>>)

\* overall_score and confidence are in hundredths
_calculate_sentiment_score(sentiment) ==
    LET base_score == (sentiment.overall_score + 100) * 500
        weighted_score == (base_score * sentiment.confidence) \div 100
        concern_penalty == Len(sentiment.brand_safety_concerns) * 5000
        final_score == Max(weighted_score - concern_penalty, 0)
        status == IF sentiment.sample_size > 0 THEN "success" ELSE "partial"
    IN ScoreComponent("Sentiment", WEIGHTS.sentiment, Some(sentiment.overall_score),
           Min(final_score, 100000), status,
           <<sentiment.overall_category, "Confidence", sentiment.confidence,
             "Sample", sentiment.sample_size>>)

-----------------------------------------------------------------------------
(* app/analyzers/score_calculator.py: aggregation *)

\* iteration order of the components dict built by calculate_final_score
ComponentOrder == <<"spotify", "youtube", "chartmetric", "web_presence", "sentiment">>
ComponentNames == {"spotify", "youtube", "chartmetric", "web_presence", "sentiment"}

\* the loop with the status test dropped
RECURSIVE WeightedLoopNoStatus(_, _)
WeightedLoopNoStatus(components, n) ==
    IF n = 0 THEN <<0, 0>>
    ELSE LET acc == WeightedLoopNoStatus(components, n - 1)
             component == components[ComponentOrder[n]]
         IN <<acc[1] + component.normalized_score * component.weight,
              acc[2] + component.weight>>

\* the loop of _weighted_average over the first n components:
\* <<total_score, available_weight>>
RECURSIVE WeightedLoop(_, _)
WeightedLoop(components, n) ==
    IF n = 0 THEN <<0, 0>>
    ELSE LET acc == WeightedLoop(components, n - 1)
             component == components[ComponentOrder[n]]
         IN IF component.status \in {"success", "partial"}
            THEN <<acc[1] + component.normalized_score * component.weight,
                   acc[2] + component.weight>>
            ELSE acc

\* the average taken over the whole weight mass instead of the available one
_weighted_average_all(components) ==
    LET acc == WeightedLoop(components, Len(ComponentOrder))
    IN IF acc[2] = 0
       THEN [final_score |-> [num |-> 0, den |-> 1], confidence |-> 0]
       ELSE [final_score |-> [num |-> acc[1], den |-> 10000], confidence |-> acc[2]]

\* returns [final_score |-> fraction of thousandths of a point,
\*          confidence |-> available weight]
_weighted_average(components) ==
    LET acc == WeightedLoop(components, Len(ComponentOrder))
        total_score == acc[1]
        available_weight == acc[2]
    IN IF available_weight = 0
       THEN [final_score |-> [num |-> 0, den |-> 1], confidence |-> 0]
       ELSE [final_score |-> [num |-> total_score, den |-> available_weight],
             confidence |-> available_weight]

\* score >= points, for a fraction with a positive denominator
FracGe(score, points) == score.num >= points * 1000 * score.den

\* the grade of the table with the thresholds of A and B+ exchanged
_score_to_grade_swapped(score) ==
    IF FracGe(score, 95) THEN "A+"
    ELSE IF FracGe(score, 90) THEN "B+"
    ELSE IF FracGe(score, 85) THEN "A"
    ELSE IF FracGe(score, 80) THEN "B"
    ELSE IF FracGe(score, 75) THEN "C+"
    ELSE IF FracGe(score, 70) THEN "C"
    ELSE IF FracGe(score, 60) THEN "D"
    ELSE "F"

_score_to_grade(score) ==
    IF FracGe(score, 95) THEN "A+"
    ELSE IF FracGe(score, 90) THEN "A"
    ELSE IF FracGe(score, 85) THEN "B+"
    ELSE IF FracGe(score, 80) THEN "B"
    ELSE IF FracGe(score, 75) THEN "C+"
    ELSE IF FracGe(score, 70) THEN "C"
    ELSE IF FracGe(score, 60) THEN "D"
    ELSE "F"

\* round(final_score, 1): tenths of a point, nearest
Round1(score) == (2 * score.num + 100 * score.den) \div (200 * score.den)

\* round(confidence, 2): hundredths, nearest
Round2(weight) == (weight + 50) \div 100

StrengthText(name) ==
    CASE name = "spotify" -> "Strong Spotify presence"
      [] name = "youtube" -> "Excellent YouTube engagement"
      [] name = "chartmetric" -> "Strong industry metrics"
      [] name = "sentiment" -> "Positive public sentiment"
      [] name = "web_presence" -> "High media visibility"

RECURSIVE StrengthLoop(_, _)
StrengthLoop(components, n) ==
    IF n = 0 THEN <<>>
    ELSE LET name == ComponentOrder[n]
             component == components[name]
         IN StrengthLoop(components, n - 1) \o
            (IF component.normalized_score >= 80000
             THEN <<<<StrengthText(name), component.reasoning>>>>
             ELSE <<>>)

_identify_strengths(components) ==
    LET strengths == StrengthLoop(components, Len(ComponentOrder))
    IN IF strengths # <<>> THEN strengths
       ELSE <<<<"Consistent performance across metrics">>>>

ImprovementText(name) ==
    CASE name = "spotify" -> "Could benefit from increased Spotify engagement"
      [] name = "youtube" -> "YouTube presence has room for growth"
      [] name = "chartmetric" -> "Chart performance could be improved"
      [] name = "sentiment" -> "Public sentiment could be more positive"
      [] name = "web_presence" -> "Limited recent media coverage"

RECURSIVE ImprovementLoop(_, _)
ImprovementLoop(components, n) ==
    IF n = 0 THEN <<>>
    ELSE LET name == ComponentOrder[n]
             component == components[name]
         IN ImprovementLoop(components, n - 1) \o
            (IF component.status = "failed"
             THEN <<<<"No data available", name>>>>
             ELSE IF component.normalized_score < 50000
             THEN <<<<ImprovementText(name)>>>>
             ELSE <<>>)

_identify_improvements(components) ==
    LET improvements == ImprovementLoop(components, Len(ComponentOrder))
    IN IF improvements # <<>> THEN improvements
       ELSE <<<<"No significant concerns identified">>>>

\* a warnings loop that also warns about partial components
RECURSIVE WarningLoopNotSuccess(_, _)
WarningLoopNotSuccess(components, n) ==
    IF n = 0 THEN <<>>
    ELSE LET component == components[ComponentOrder[n]]
         IN WarningLoopNotSuccess(components, n - 1) \o
            (IF component.status # "success"
             THEN <<<<component.name, "data unavailable", component.reasoning>>>>
             ELSE <<>>)

\* the warnings loop of calculate_final_score
RECURSIVE WarningLoop(_, _)
WarningLoop(components, n) ==
    IF n = 0 THEN <<>>
    ELSE LET component == components[ComponentOrder[n]]
         IN WarningLoop(components, n - 1) \o
            (IF component.status = "failed"
             THEN <<<<component.name, "data unavailable", component.reasoning>>>>
             ELSE <<>>)

\* the components dict of calculate_final_score
BuildComponents(spotify, youtube, chartmetric, brave, sentiment) ==
    [name \in ComponentNames |->
        CASE name = "spotify" -> _calculate_spotify_score(spotify)
          [] name = "youtube" -> _calculate_youtube_score(youtube)
          [] name = "chartmetric" -> _calculate_chartmetric_score(chartmetric)
          [] name = "web_presence" -> _calculate_web_presence_score(brave)
          [] name = "sentiment" -> _calculate_sentiment_score(sentiment)]

\* what calculate_final_score derives from the components dict
Aggregate(components) ==
    LET avg == _weighted_average(components)
    IN [final_score |-> Round1(avg.final_score),
        score_grade |-> _score_to_grade(avg.final_score),
        breakdown |-> components,
        key_strengths |-> _identify_strengths(components),
        areas_for_improvement |-> _identify_improvements(components),
        confidence_level |-> Round2(avg.confidence),
        warnings |-> WarningLoop(components, Len(ComponentOrder))]

\* the keyword arguments calculate_final_score passes to ArtistScoreResponse
calculate_final_score(name, spotify, youtube, chartmetric, brave, sentiment, summary, now) ==
    LET agg == Aggregate(BuildComponents(spotify, youtube, chartmetric, brave, sentiment))
    IN [artist_name |-> name,
        final_score |-> agg.final_score,
        score_grade |-> agg.score_grade,
        breakdown |-> agg.breakdown,
        key_strengths |-> agg.key_strengths,
        areas_for_improvement |-> agg.areas_for_improvement,
        ai_summary |-> IF summary # EmptyStr THEN summary ELSE sentiment.summary,
        data_freshness |-> now,
        confidence_level |-> agg.confidence_level,
        warnings |-> agg.warnings]

(* app/models/score.py: ArtistScoreResponse *)

\* fields declared without a default
RequiredFields == {"artist_name", "final_score", "score_grade", "breakdown",
                   "sentiment_overview", "key_strengths", "areas_for_improvement",
                   "ai_summary", "data_freshness", "confidence_level"}

\* pydantic validation of the constructor call: every required field is given
\* and final_score satisfies Field(ge=0, le=100)
Validates(kwargs) ==
    /\ RequiredFields \subseteq DOMAIN kwargs
    /\ kwargs.final_score >= 0
    /\ kwargs.final_score <= 1000

-----------------------------------------------------------------------------
(* app/models: collector result bundles *)

YouTubeMetrics(status, error_message, channel_stats) ==
    [type |-> "YouTubeMetrics", status |-> status, error_message |-> error_message,
     channel_stats |-> channel_stats]

SpotifyMetrics(status, error_message, artist_stats) ==
    [type |-> "SpotifyMetrics", status |-> status, error_message |-> error_message,
     artist_stats |-> artist_stats]

ChartmetricMetrics(status, error_message, artist_stats) ==
    [type |-> "ChartmetricMetrics", status |-> status, error_message |-> error_message,
     artist_stats |-> artist_stats]

BraveSearchMetrics(status, error_message, news_articles, total_results_count, recent_news_count) ==
    [type |-> "BraveSearchMetrics", status |-> status, error_message |-> error_message,
     news_articles |-> news_articles, total_results_count |-> total_results_count,
     recent_news_count |-> recent_news_count]

\* the result class of each collector
MetricsType(source) ==
    CASE source = "youtube" -> "YouTubeMetrics"
      [] source = "spotify" -> "SpotifyMetrics"
      [] source = "chartmetric" -> "ChartmetricMetrics"
      [] source = "brave" -> "BraveSearchMetrics"

-----------------------------------------------------------------------------
(* app/collectors *)

\* how a coroutine ends: it returns a value or raises an exception with str(e) = msg
Ret(v) == [raised |-> FALSE, value |-> v]
Raise(m) == [raised |-> TRUE, msg |-> m]

_create_failed_result(source, error_message) ==
    CASE source = "youtube" -> YouTubeMetrics(FAILED, Some(error_message), None)
      [] source = "spotify" -> SpotifyMetrics(FAILED, Some(error_message), None)
      [] source = "chartmetric" -> ChartmetricMetrics(FAILED, Some(error_message), None)
      [] source = "brave" ->
            BraveSearchMetrics(FAILED, Some(error_message), <<>>, 0, 0)

\* YouTubeCollector.collect; w is what the YouTube API answers
YouTubeCollect(w, name) ==
    IF w.search = "raise" THEN Raise(w.msg)
    ELSE IF w.search # "found"
    THEN Ret(YouTubeMetrics(FAILED,
                 Some(<<"Could not find YouTube channel for ">> \o name), None))
    ELSE IF w.channel = "raise" THEN Raise(w.msg)
    ELSE IF w.channel # "ok"
    THEN Ret(YouTubeMetrics(PARTIAL, Some(<<"Could not retrieve channel statistics">>),
                 None))
    ELSE LET subscriber_count == w.subscriber_count
             avg_views == w.view_count \div Max(w.video_count, 1)
             recent_avg_views == IF w.videos = "ok" THEN w.recent_avg_views ELSE 0
             engagement_rate ==
                 Min((recent_avg_views * 100) \div Max(subscriber_count, 1), 100)
         IN Ret(YouTubeMetrics(SUCCESS, None,
                    Some([subscriber_count |-> subscriber_count,
                          avg_views_per_video |-> avg_views,
                          engagement_rate |-> engagement_rate])))

\* SpotifyCollector.search_artist: an exception of the client is swallowed
SpotifySearchArtist(w) ==
    IF ~w.sp THEN None
    ELSE IF w.search = "found" THEN Some("artist_id") ELSE None

\* SpotifyCollector.collect
SpotifyCollect(w, name) ==
    IF ~w.sp
    THEN Ret(SpotifyMetrics(FAILED,
                 Some(<<"Spotify API not initialized: ">> \o
                      OrStr(w.init_error, <<"Invalid credentials">>)), None))
    ELSE IF IsNone(SpotifySearchArtist(w))
    THEN Ret(SpotifyMetrics(FAILED,
                 Some(<<"Could not find Spotify artist for ">> \o name), None))
    ELSE IF w.artist = "error"
    THEN Ret(SpotifyMetrics(PARTIAL, Some(<<"Could not retrieve artist details">>), None))
    ELSE IF w.artist = "malformed"
    THEN Raise(<<"validation error for SpotifyArtistStats">>)
    ELSE Ret(SpotifyMetrics(SUCCESS, None,
                 Some([followers |-> w.followers, popularity |-> w.popularity])))

\* a _get_access_token that asks for a token on every call
_get_access_token_every_call(w, cache) ==
    IF w.token = "raise" THEN [r |-> Raise(w.msg), cache |-> cache, posts |-> 1]
    ELSE IF w.token # "ok" THEN [r |-> Ret(None), cache |-> cache, posts |-> 1]
    ELSE [r |-> Ret(Some(w.valid)), cache |-> Some(w.valid), posts |-> 1]

\* ChartmetricCollector._get_access_token:
\* [r |-> Ret(token) or Raise, cache |-> token', posts |-> token requests made].
\* w.valid is the token the API hands out and accepts.
_get_access_token(w, cache) ==
    IF TruthyStr(cache) THEN [r |-> Ret(cache), cache |-> cache, posts |-> 0]
    ELSE IF w.token = "raise" THEN [r |-> Raise(w.msg), cache |-> cache, posts |-> 1]
    ELSE IF w.token # "ok" THEN [r |-> Ret(None), cache |-> cache, posts |-> 1]
    ELSE [r |-> Ret(Some(w.valid)), cache |-> Some(w.valid), posts |-> 1]

\* the API answers 200 to a request that carries this token
TokenAccepted(w, token) == w.token = "ok" /\ token = Some(w.valid)

\* ChartmetricCollector.collect:
\* [r |-> Ret(bundle) or Raise, cache |-> token', posts |-> token requests made]
ChartmetricCollect(w, name, cache) ==
    LET t == _get_access_token(w, cache)
    IN IF t.r.raised THEN t
       ELSE IF ~TruthyStr(t.r.value)
       THEN [r |-> Ret(ChartmetricMetrics(FAILED,
                       Some(<<"Could not authenticate with Chartmetric API">>), None)),
             cache |-> t.cache, posts |-> t.posts]
       ELSE IF w.search = "raise"
       THEN [r |-> Raise(w.msg), cache |-> t.cache, posts |-> t.posts]
       ELSE IF ~TokenAccepted(w, t.r.value) \/ w.search # "found"
       THEN [r |-> Ret(ChartmetricMetrics(FAILED,
                       Some(<<"Could not find Chartmetric artist for ">> \o name), None)),
             cache |-> t.cache, posts |-> t.posts]
       ELSE [r |-> Ret(ChartmetricMetrics(SUCCESS, None,
                       Some([cm_artist_rank |-> IF w.detail = "ok" THEN w.rank ELSE None,
                             cm_artist_score |-> w.score,
                             sp_monthly_listeners |-> w.listeners]))),
             cache |-> t.cache, posts |-> t.posts]

\* BraveSearchCollector._search_news: a non-200 answer is an empty list
_search_news(w) ==
    IF w.news = "raise" THEN Raise(w.msg)
    ELSE IF w.news # "ok" THEN Ret(<<>>)
    ELSE Ret(w.articles)

\* BraveSearchCollector._search_web: a non-200 answer is a count of 0
_search_web(w) ==
    IF w.web = "raise" THEN Raise(w.msg)
    ELSE IF w.web # "ok" THEN Ret(0)
    ELSE Ret(w.web_count)

\* BraveSearchCollector.collect
BraveCollect(w, name) ==
    LET news == _search_news(w)
        web == _search_web(w)
    IN IF news.raised THEN news
       ELSE IF web.raised THEN web
       ELSE IF news.value = <<>> /\ web.value = 0
       THEN Ret(BraveSearchMetrics(PARTIAL,
                    Some(<<"Limited web presence found for ">> \o name), <<>>, 0, 0))
       ELSE Ret(BraveSearchMetrics(SUCCESS, None, news.value, web.value,
                    Len(news.value)))

\* safe_collect that drops the exception's message
safe_collect_no_message(collected, source) ==
    IF collected.raised
    THEN Ret(_create_failed_result(source, <<"collection failed">>))
    ELSE collected

\* BaseCollector.safe_collect applied to the way collect ended
safe_collect(collected, source) ==
    IF collected.raised
    THEN Ret(_create_failed_result(source, collected.msg))
    ELSE collected

-----------------------------------------------------------------------------
(* app/analyzers/sentiment_analyzer.py *)

AggregatedSentiment(category, score, confidence, sample_size, key_themes, summary, concerns) ==
    [overall_category |-> category, overall_score |-> score, confidence |-> confidence,
     sample_size |-> sample_size, key_themes |-> key_themes, summary |-> summary,
     brand_safety_concerns |-> concerns]

\* the articles that reach the prompt
_format_articles(articles) == SubSeq(articles, 1, Min(Len(articles), 10))

\* the model called whatever the article list
AnalyzeCallsModelAlways(articles) == TRUE

\* whether analyze_articles calls the model
AnalyzeCallsModel(articles) == articles # <<>>

\* an analyze_articles that reports an empty sample when the model call fails
analyze_articles_empty_sample(name, articles, g) ==
    IF articles = <<>>
    THEN AggregatedSentiment("neutral", 0, 30, 0, <<>>,
             <<"No recent news articles found for ">> \o name
                 \o <<". Unable to assess public sentiment.">>, <<>>)
    ELSE IF g.kind = "raise"
    THEN AggregatedSentiment("neutral", 0, 20, 0, <<>>,
             <<"Error analyzing sentiment: ">> \o g.msg, <<>>)
    ELSE IF g.kind = "unparsable"
    THEN AggregatedSentiment("neutral", 0, 50, Len(articles), <<>>,
             <<"Unable to analyze sentiment from available data.">>, <<>>)
    ELSE AggregatedSentiment(g.category, g.score, g.confidence, Len(articles),
             g.key_themes, g.summary, g.concerns)

\* analyze_articles; g is what the model answers
analyze_articles(name, articles, g) ==
    IF articles = <<>>
    THEN AggregatedSentiment("neutral", 0, 30, 0, <<>>,
             <<"No recent news articles found for ">> \o name
                 \o <<". Unable to assess public sentiment.">>, <<>>)
    ELSE IF g.kind = "raise"
    THEN AggregatedSentiment("neutral", 0, 20, Len(articles), <<>>,
             <<"Error analyzing sentiment: ">> \o g.msg, <<>>)
    ELSE IF g.kind = "unparsable"
    THEN AggregatedSentiment("neutral", 0, 50, Len(articles), <<>>,
             <<"Unable to analyze sentiment from available data.">>, <<>>)
    ELSE AggregatedSentiment(g.category, g.score, g.confidence, Len(articles),
             g.key_themes, g.summary, g.concerns)

\* generate_artist_summary; g is what the model answers
generate_artist_summary(name, scores, sentiment, g) ==
    IF g.kind = "raise"
    THEN name \o <<" shows ">>
              \o (IF scores.spotify > 70000 THEN <<"strong">> ELSE <<"moderate">>)
              \o <<" potential for brand partnerships based on available metrics.">>
    ELSE g.text

-----------------------------------------------------------------------------
(* app/services/artist_service.py *)

\* an exception object held in the gather result list
ExceptionObject(msg) == [exc |-> TRUE, msg |-> msg]
IsException(result) == "exc" \in DOMAIN result

\* asyncio.gather is called with return_exceptions=True
ReturnExceptions == TRUE

\* results stored in order of completion
GatherSlotByCompletion(i, ndone) == ndone + 1

\* the slot of the gather result list that holds the i-th awaitable's result;
\* ndone awaitables finished before it
GatherSlot(i, ndone) == i

HandlePrefix(source) ==
    CASE source = "youtube" -> <<"YouTube collection failed: ">>
      [] source = "spotify" -> <<"Spotify collection failed: ">>
      [] source = "chartmetric" -> <<"Chartmetric collection failed: ">>
      [] source = "brave" -> <<"Brave search failed: ">>

_handle_exception(result, source) ==
    IF IsException(result)
    THEN _create_failed_result(source, HandlePrefix(source) \o result.msg)
    ELSE result

-----------------------------------------------------------------------------
(* What the external services answer *)

Timeout == EmptyStr      \* str(asyncio.TimeoutError()) is ""
NetworkError == <<"Cannot connect to host">>

YouTubeWorlds ==
    { [search |-> "non200"],
      [search |-> "raise", msg |-> Timeout],
      [search |-> "found", channel |-> "non200"],
      [search |-> "found", channel |-> "ok", videos |-> "ok",
       subscriber_count |-> 1000000, view_count |-> 200000000, video_count |-> 100,
       recent_avg_views |-> 100000] }

SpotifyWorlds ==
    { [sp |-> FALSE, init_error |-> None],
      [sp |-> TRUE, search |-> "error"],
      [sp |-> TRUE, search |-> "found", artist |-> "error"],
      [sp |-> TRUE, search |-> "found", artist |-> "malformed"],
      [sp |-> TRUE, search |-> "found", artist |-> "ok",
       followers |-> 2000000, popularity |-> 80] }

ChartmetricWorlds ==
    { [token |-> "non200"],
      [token |-> "raise", msg |-> NetworkError],
      [token |-> "ok", valid |-> <<"jwt">>, search |-> "non200"],
      [token |-> "ok", valid |-> <<"jwt">>, search |-> "found", detail |-> "non200",
       rank |-> Some(1), score |-> Some(70), listeners |-> Some(1000000)],
      [token |-> "ok", valid |-> <<"jwt">>, search |-> "found", detail |-> "ok",
       rank |-> Some(1), score |-> None, listeners |-> None] }

BraveWorlds ==
    { [news |-> "raise", msg |-> NetworkError],
      [news |-> "non200", web |-> "non200"],
      [news |-> "ok", articles |-> <<>>, web |-> "ok", web_count |-> 5],
      [news |-> "ok", articles |-> <<1, 2>>, web |-> "ok", web_count |-> 5] }

SentimentModelWorlds ==
    { [kind |-> "raise", msg |-> Timeout],
      [kind |-> "ok", category |-> "positive", score |-> 60, confidence |-> 80,
       key_themes |-> <<"tour">>, summary |-> <<"Well received.">>,
       concerns |-> <<>>] }

SummaryModelWorlds ==
    { [kind |-> "raise"], [kind |-> "ok", text |-> <<"Executive summary.">>] }

ArtistNames == {EmptyStr, <<"Adele">>}

Worlds ==
    [youtube : YouTubeWorlds, spotify : SpotifyWorlds, chartmetric : ChartmetricWorlds,
     brave : BraveWorlds, sentiment_model : SentimentModelWorlds,
     summary_model : SummaryModelWorlds, artist_name : ArtistNames,
     include_details : BOOLEAN]

-----------------------------------------------------------------------------
(* ArtistScoringService.get_artist_score as a state machine *)

Pending == [pending |-> TRUE]
NoCalls == [collect |-> [s \in SourceSet |-> 0], analyze |-> 0, sentiment_model |-> 0,
            summary |-> 0, final |-> 0, token |-> 0]
NoOutcome == [kind |-> "none", error |-> <<>>]

SourceIndex(source) ==
    CASE source = "youtube" -> 1
      [] source = "spotify" -> 2
      [] source = "chartmetric" -> 3
      [] source = "brave" -> 4

\* youtube_data, spotify_data, chartmetric_data, brave_data of get_artist_score
Data(source) == _handle_exception(results[SourceIndex(source)], source)

\* the response without its timestamp, and how the call ended
Observable(resp, out) ==
    [response |-> [f \in (DOMAIN resp) \ {"data_freshness"} |-> resp[f]],
     outcome |-> out]

\* gather returns when a single awaitable has finished
AnyDone == \E i \in 1..4 : tasks[i].st = "done"

\* gather returns when every awaitable has finished
AllDone == \A i \in 1..4 : tasks[i].st = "done"

\* the request threads that resolve the get_scoring_service dependency
Threads == 1..MaxThreads
NoService == [t \in Threads |-> [pc |-> "start", service |-> None]]

\* safe_collect that is tried again after a failed attempt
AfterAttemptRetry(bundle) == IF bundle.status = FAILED THEN "pending" ELSE "done"

\* state of a gathered task once safe_collect has returned its bundle: the single
\* attempt is over, whatever the status of the bundle
AfterAttempt(bundle) == "done"

\* a model call that never answers: generate_content is given no timeout
NeverResponds(g) == g.kind = "hang"

InitRequest(w) ==
    /\ world = w
    /\ pc = "idle"
    /\ artist_name = EmptyStr
    /\ include_details = TRUE
    /\ tasks = [i \in 1..4 |-> [st |-> "none"]]
    /\ results = [i \in 1..4 |-> Pending]
    /\ sentiment_data = Pending
    /\ ai_summary = EmptyStr
    /\ response = Pending
    /\ outcome = NoOutcome
    /\ calls = NoCalls
    /\ access_token = None
    /\ first = Pending
    /\ nreq = 0
    /\ clock = 0
    /\ inorder = TRUE
    /\ _service_instance = None
    /\ dep = NoService
    /\ constructed = 0

Init ==
    /\ \E w \in Worlds : InitRequest(w)
    /\ fn_in = Pending
    /\ fn_out = Pending

\* a route calls get_artist_score: gather creates the four safe_collect tasks
Request ==
    /\ pc \in {"idle", "done"}
    /\ nreq < MaxRequests
    /\ pc' = "gather"
    /\ artist_name' = world.artist_name
    /\ include_details' = world.include_details
    /\ tasks' = [i \in 1..4 |-> [st |-> "pending"]]
    /\ results' = [i \in 1..4 |-> Pending]
    /\ sentiment_data' = Pending
    /\ ai_summary' = EmptyStr
    /\ response' = Pending
    /\ outcome' = NoOutcome
    /\ calls' = NoCalls
    /\ inorder' = TRUE
    /\ clock' = clock + 1
    /\ UNCHANGED <<world, access_token, first, nreq, fn_in, fn_out>>
    /\ UNCHANGED svcvars

\* how collect of the i-th collector ends:
\* [r |-> Ret or Raise, cache |-> token', posts |-> Chartmetric token requests made]
CollectOf(i) ==
    CASE i = 1 -> [r |-> YouTubeCollect(world.youtube, artist_name),
                   cache |-> access_token, posts |-> 0]
      [] i = 2 -> [r |-> SpotifyCollect(world.spotify, artist_name),
                   cache |-> access_token, posts |-> 0]
      [] i = 3 -> ChartmetricCollect(world.chartmetric, artist_name, access_token)
      [] i = 4 -> [r |-> BraveCollect(world.brave, artist_name),
                   cache |-> access_token, posts |-> 0]

\* what ends an invocation: the bookkeeping of a finished request
Finish(resp, out) ==
    /\ pc' = "done"
    /\ response' = resp
    /\ outcome' = out
    /\ nreq' = nreq + 1
    /\ first' = IF nreq = 0 THEN Observable(resp, out) ELSE first

\* the i-th safe_collect task runs to its end
Collect(i) ==
    /\ pc = "gather"
    /\ tasks[i].st = "pending"
    /\ LET source == Sources[i]
           c == CollectOf(i)
           safe == safe_collect(c.r, source)
           ndone == Cardinality({j \in 1..4 : tasks[j].st = "done"})
       IN /\ tasks' = [tasks EXCEPT ![i] =
                          [st |-> IF safe.raised THEN "done" ELSE AfterAttempt(safe.value),
                           collected |-> c.r]]
          /\ access_token' = c.cache
          /\ calls' = [calls EXCEPT !.collect[source] = @ + 1, !.token = @ + c.posts]
          /\ inorder' = (inorder /\ ndone = i - 1)
          /\ IF safe.raised /\ ~ReturnExceptions
             THEN /\ Finish(Pending, [kind |-> "raised", error |-> <<"collector", source>>])
                  /\ UNCHANGED results
             ELSE /\ results' = [results EXCEPT ![GatherSlot(i, ndone)] =
                                    IF safe.raised THEN ExceptionObject(safe.msg)
                                    ELSE safe.value]
                  /\ UNCHANGED <<pc, response, outcome, nreq, first>>
    /\ UNCHANGED <<world, artist_name, include_details, sentiment_data, ai_summary,
                   clock, fn_in, fn_out>>
    /\ UNCHANGED svcvars

\* gather returned: the results are unwrapped and the sentiment analysis runs
Analyze ==
    /\ pc = "gather"
    /\ AllDone
    /\ LET brave_data == Data("brave")
           articles == IF "news_articles" \in DOMAIN brave_data
                       THEN brave_data.news_articles ELSE <<>>
       IN /\ AnalyzeCallsModel(articles) => ~NeverResponds(world.sentiment_model)
          /\ sentiment_data' = analyze_articles(artist_name, articles,
                                                world.sentiment_model)
          /\ calls' = [calls EXCEPT !.analyze = @ + 1,
                                    !.sentiment_model =
                                        IF AnalyzeCallsModel(articles) THEN @ + 1 ELSE @]
    /\ pc' = "summary"
    /\ UNCHANGED <<world, artist_name, include_details, tasks, results, ai_summary,
                   response, outcome, access_token, first, nreq, clock, inorder,
                   fn_in, fn_out>>
    /\ UNCHANGED svcvars

\* the scores dict handed to generate_artist_summary
SummaryScores ==
    [spotify |-> _calculate_spotify_score(Data("spotify")).normalized_score,
     youtube |-> _calculate_youtube_score(Data("youtube")).normalized_score,
     chartmetric |-> _calculate_chartmetric_score(Data("chartmetric")).normalized_score,
     web_presence |-> _calculate_web_presence_score(Data("brave")).normalized_score,
     sentiment |-> _calculate_sentiment_score(sentiment_data).normalized_score]

\* the summary is generated when details were asked for
Summarize ==
    /\ pc = "summary"
    /\ include_details => ~NeverResponds(world.summary_model)
    /\ IF include_details
       THEN /\ ai_summary' = generate_artist_summary(artist_name, SummaryScores,
                                 sentiment_data, world.summary_model)
            /\ calls' = [calls EXCEPT !.summary = @ + 1]
       ELSE /\ ai_summary' = EmptyStr
            /\ UNCHANGED calls
    /\ pc' = "score"
    /\ UNCHANGED <<world, artist_name, include_details, tasks, results, sentiment_data,
                   response, outcome, access_token, first, nreq, clock, inorder,
                   fn_in, fn_out>>
    /\ UNCHANGED svcvars

\* calculate_final_score builds the response; pydantic validates it
Finalize ==
    /\ pc = "score"
    /\ LET kwargs == calculate_final_score(artist_name, Data("spotify"),
                         Data("youtube"), Data("chartmetric"), Data("brave"),
                         sentiment_data, ai_summary, clock)
       IN Finish(kwargs,
                 IF Validates(kwargs) THEN [kind |-> "returned", error |-> <<>>]
                 ELSE [kind |-> "raised", error |-> <<"ValidationError">>])
    /\ calls' = [calls EXCEPT !.final = @ + 1]
    /\ UNCHANGED <<world, artist_name, include_details, tasks, results, sentiment_data,
                   ai_summary, access_token, clock, inorder, fn_in, fn_out>>
    /\ UNCHANGED svcvars

Next ==
    \/ Request
    \/ \E i \in 1..4 : Collect(i)
    \/ Analyze
    \/ Summarize
    \/ Finalize

Spec == Init /\ [][Next]_vars

-----------------------------------------------------------------------------
(* Requests while the Chartmetric API stops accepting the token it handed out *)

\* the token the API hands out and accepts after the first one has expired
RenewedToken == <<"jwt2">>

\* worlds in which Chartmetric hands out a token; the other collaborators are fixed
TokenWorlds ==
    { w \in Worlds :
        /\ w.chartmetric.token = "ok"
        /\ w.artist_name # EmptyStr
        /\ w.youtube = [search |-> "non200"]
        /\ w.spotify = [sp |-> TRUE, search |-> "error"]
        /\ w.brave.news = "non200"
        /\ w.sentiment_model.kind = "ok" }

InitExpiry ==
    /\ \E w \in TokenWorlds : InitRequest(w)
    /\ fn_in = Pending
    /\ fn_out = Pending

\* the API starts answering non-200 to requests that carry the cached token
ExpireToken ==
    /\ TruthyStr(access_token)
    /\ TokenAccepted(world.chartmetric, access_token)
    /\ world' = [world EXCEPT !.chartmetric.valid = RenewedToken]
    /\ UNCHANGED <<pc, artist_name, include_details, tasks, results, sentiment_data,
                   ai_summary, response, outcome, calls, access_token, first, nreq,
                   clock, inorder, fn_in, fn_out>>
    /\ UNCHANGED svcvars

NextExpiry == Next \/ ExpireToken

SpecExpiry == InitExpiry /\ [][NextExpiry]_vars

-----------------------------------------------------------------------------
(* The component scorers applied to arbitrary bundles *)

ErrorMessages == {None, Some(EmptyStr), Some(<<"upstream error">>)}

SpotifyBundles ==
    { SpotifyMetrics(st, em, stats) :
        st \in CollectorStatus, em \in ErrorMessages,
        stats \in {None} \cup
            { Some([followers |-> f, popularity |-> p]) :
                f \in {0, 2000000, 200000000}, p \in {-10, 0, 80, 100, 120} } }

YouTubeBundles ==
    { YouTubeMetrics(st, em, stats) :
        st \in CollectorStatus, em \in ErrorMessages,
        stats \in {None} \cup
            { Some([subscriber_count |-> sc, avg_views_per_video |-> av,
                    engagement_rate |-> er]) :
                sc \in {0, 1000000, 50000000}, av \in {0, 1000000, 100000000},
                er \in {-5, 0, 10, 100} } }

ChartmetricBundles ==
    { ChartmetricMetrics(st, em, stats) :
        st \in CollectorStatus, em \in ErrorMessages,
        stats \in {None} \cup
            { Some([cm_artist_rank |-> r, cm_artist_score |-> sc,
                    sp_monthly_listeners |-> ml]) :
                r \in {None, Some(0), Some(1), Some(50), Some(500), Some(5000),
                       Some(20000), Some(-3)},
                sc \in {None, Some(0), Some(-20), Some(70), Some(100), Some(400)},
                ml \in {None, Some(0), Some(1000000), Some(200000000)} } }

BraveBundles ==
    { BraveSearchMetrics(st, em, <<>>, 0, n) :
        st \in CollectorStatus, em \in ErrorMessages, n \in {-1, 0, 1, 25, 50, 60} }

SentimentInputs ==
    { AggregatedSentiment("neutral", sc, cf, n, <<>>, <<"summary">>, cs) :
        sc \in {-300, -100, 0, 100, 250}, cf \in {0, 30, 100, 150},
        n \in {0, 5}, cs \in {<<>>, <<"lawsuit">>, <<"lawsuit", "feud", "arrest">>} }

\* a world for the specifications that only exercise pure functions
IdleWorld == CHOOSE w \in Worlds : w.artist_name # EmptyStr

InitScore ==
    /\ InitRequest(IdleWorld)
    /\ fn_in = Pending
    /\ fn_out = Pending

ScoreSpotify ==
    /\ fn_out = Pending
    /\ \E d \in SpotifyBundles :
          /\ fn_in' = [fn |-> "spotify", data |-> d]
          /\ fn_out' = _calculate_spotify_score(d)
    /\ UNCHANGED reqvars

ScoreYouTube ==
    /\ fn_out = Pending
    /\ \E d \in YouTubeBundles :
          /\ fn_in' = [fn |-> "youtube", data |-> d]
          /\ fn_out' = _calculate_youtube_score(d)
    /\ UNCHANGED reqvars

ScoreChartmetric ==
    /\ fn_out = Pending
    /\ \E d \in ChartmetricBundles :
          /\ fn_in' = [fn |-> "chartmetric", data |-> d]
          /\ fn_out' = _calculate_chartmetric_score(d)
    /\ UNCHANGED reqvars

ScoreWebPresence ==
    /\ fn_out = Pending
    /\ \E d \in BraveBundles :
          /\ fn_in' = [fn |-> "web_presence", data |-> d]
          /\ fn_out' = _calculate_web_presence_score(d)
    /\ UNCHANGED reqvars

ScoreSentiment ==
    /\ fn_out = Pending
    /\ \E d \in SentimentInputs :
          /\ fn_in' = [fn |-> "sentiment", data |-> d]
          /\ fn_out' = _calculate_sentiment_score(d)
    /\ UNCHANGED reqvars

NextScore ==
    \/ ScoreSpotify
    \/ ScoreYouTube
    \/ ScoreChartmetric
    \/ ScoreWebPresence
    \/ ScoreSentiment

SpecScore == InitScore /\ [][NextScore]_vars

-----------------------------------------------------------------------------
(* The aggregation applied to arbitrary components *)

AvgScores == {0, 33300, 100000}
ComponentStatuses == {"success", "partial", "failed"}

ComponentInputs ==
    { [name \in ComponentNames |->
          ScoreComponent(name, WEIGHTS[name], None, sc[name], st[name],
                         <<"reason of ", name>>)] :
        sc \in [ComponentNames -> AvgScores],
        st \in [ComponentNames -> ComponentStatuses] }

InitAvg ==
    /\ InitRequest(IdleWorld)
    /\ fn_in \in { [fn |-> "components", data |-> c] : c \in ComponentInputs }
    /\ fn_out = Pending

\* lines 356-357 and 375-383 of calculate_final_score on a components dict
Average ==
    /\ fn_out = Pending
    /\ fn_out' = [avg |-> _weighted_average(fn_in.data), agg |-> Aggregate(fn_in.data)]
    /\ UNCHANGED fn_in
    /\ UNCHANGED reqvars

NextAvg == Average

SpecAvg == InitAvg /\ [][NextAvg]_vars

-----------------------------------------------------------------------------
(* Requests against collaborators that may never answer *)

\* An aiohttp call is given timeout=self.timeout: a service that never answers makes
\* it raise asyncio.TimeoutError.  The generate_content calls of the analyzer are
\* given no timeout: a model that never answers leaves the call waiting.
HangWorlds ==
    [youtube : { [search |-> "raise", msg |-> Timeout],
                 [search |-> "found", channel |-> "ok", videos |-> "ok",
                  subscriber_count |-> 1000000, view_count |-> 200000000,
                  video_count |-> 100, recent_avg_views |-> 100000] },
     spotify : { [sp |-> TRUE, search |-> "error"] },
     chartmetric : { [token |-> "raise", msg |-> Timeout] },
     brave : { [news |-> "raise", msg |-> Timeout],
               [news |-> "ok", articles |-> <<1, 2>>, web |-> "ok", web_count |-> 5] },
     sentiment_model : SentimentModelWorlds \cup { [kind |-> "hang"] },
     summary_model : SummaryModelWorlds \cup { [kind |-> "hang"] },
     artist_name : { <<"Adele">> },
     include_details : BOOLEAN]

InitHang ==
    /\ \E w \in HangWorlds : InitRequest(w)
    /\ fn_in = Pending
    /\ fn_out = Pending

SpecHang == InitHang /\ [][Next]_vars

-----------------------------------------------------------------------------
(* app/api/routes.py: get_scoring_service, run by FastAPI in a worker thread *)
(* for each request because it is a plain def                               *)

\* line 49: if _service_instance is None
TestInstance(t) ==
    /\ dep[t].pc = "start"
    /\ dep' = [dep EXCEPT ![t].pc =
                  IF IsNone(_service_instance) THEN "construct" ELSE "return"]
    /\ UNCHANGED <<_service_instance, constructed, flowvars, fn_in, fn_out>>

\* line 50: _service_instance = ArtistScoringService(settings)
ConstructInstance(t) ==
    /\ dep[t].pc = "construct"
    /\ constructed' = constructed + 1
    /\ _service_instance' = Some(constructed + 1)
    /\ dep' = [dep EXCEPT ![t].pc = "return"]
    /\ UNCHANGED <<flowvars, fn_in, fn_out>>

\* line 51: return _service_instance
ReturnInstance(t) ==
    /\ dep[t].pc = "return"
    /\ dep' = [dep EXCEPT ![t] = [pc |-> "served", service |-> _service_instance]]
    /\ UNCHANGED <<_service_instance, constructed, flowvars, fn_in, fn_out>>

InitService ==
    /\ InitRequest(IdleWorld)
    /\ fn_in = Pending
    /\ fn_out = Pending

NextService ==
    \E t \in Threads :
        \/ TestInstance(t)
        \/ ConstructInstance(t)
        \/ ReturnInstance(t)

SpecService == InitService /\ [][NextService]_vars

-----------------------------------------------------------------------------
(* _score_to_grade applied to pairs of scores *)

\* scores in thousandths of a point, on and around every threshold
GradeScores ==
    {0, 59999, 60000, 69999, 70000, 74999, 75000, 79999, 80000, 84999, 85000,
     89999, 90000, 94999, 95000, 100000}

InitGrade ==
    /\ InitRequest(IdleWorld)
    /\ fn_in \in { [fn |-> "grade", s1 |-> a, s2 |-> b] :
                      a \in GradeScores, b \in GradeScores }
    /\ fn_out = Pending

Grade ==
    /\ fn_out = Pending
    /\ fn_out' = [g1 |-> _score_to_grade([num |-> fn_in.s1, den |-> 1]),
                  g2 |-> _score_to_grade([num |-> fn_in.s2, den |-> 1])]
    /\ UNCHANGED fn_in
    /\ UNCHANGED reqvars

NextGrade == Grade

SpecGrade == InitGrade /\ [][NextGrade]_vars

-----------------------------------------------------------------------------
(* the normalisers and the rank curve applied to drawn arguments *)

\* the outcome of a call of _log_normalize
_log_normalize_call(value, min_val, max_val) ==
    IF LogDivisionByZero(value, min_val, max_val)
    THEN Raise(<<"ZeroDivisionError">>)
    ELSE Ret(_log_normalize(value, min_val, max_val))

LogBounds ==
    {1000, 5000, 10000, 100000, 1000000, 1000001, 1000002, 2000000, 50000000,
     100000000, 200000000}

LogValues == {-5, 0, 1} \cup LogBounds

LinearBounds == {1, 2, 3, 7, 50}

LinearValues == {-5, 0, 1, 2, 3, 4, 6, 7, 8, 25, 49, 50, 51}

InitFn ==
    /\ InitRequest(IdleWorld)
    /\ fn_in = Pending
    /\ fn_out = Pending

NormalizeLog ==
    /\ fn_out = Pending
    /\ \E lo \in LogBounds, hi \in LogBounds, a \in LogValues, b \in LogValues :
          /\ lo < hi
          /\ a <= b
          /\ fn_in' = [fn |-> "log", v1 |-> a, v2 |-> b, min_val |-> lo, max_val |-> hi]
          /\ fn_out' = [r1 |-> _log_normalize_call(a, lo, hi),
                        r2 |-> _log_normalize_call(b, lo, hi)]
    /\ UNCHANGED reqvars

NormalizeLinear ==
    /\ fn_out = Pending
    /\ \E lo \in LinearBounds, hi \in LinearBounds,
          a \in LinearValues, b \in LinearValues :
          /\ lo < hi
          /\ a <= b
          /\ fn_in' = [fn |-> "linear", v1 |-> a, v2 |-> b,
                       min_val |-> lo, max_val |-> hi]
          /\ fn_out' = [r1 |-> Ret(_linear_normalize(a, lo, hi)),
                        r2 |-> Ret(_linear_normalize(b, lo, hi))]
    /\ UNCHANGED reqvars

\* the longest article list drawn; the news search asks for 20
MaxArticles == 12

\* article lists, each article standing for its title, source and description
ArticleLists == { [i \in 1..n |-> k + i] : n \in 0..MaxArticles, k \in {0, 100} }

\* the second argument get_artist_score passes to analyze_articles
ArticlesArgument(brave_data) ==
    IF "news_articles" \in DOMAIN brave_data THEN brave_data.news_articles ELSE <<>>

\* lines 86-90 of get_artist_score on a web-presence bundle, with what
\* analyze_articles then puts in the prompt of the external model
AnalyzeBundle ==
    /\ fn_out = Pending
    /\ \E a \in ArticleLists, g \in SentimentModelWorlds :
          LET brave_data == BraveSearchMetrics(SUCCESS, None, a, 5, Len(a))
              articles == ArticlesArgument(brave_data)
          IN /\ fn_in' = [fn |-> "analyze", data |-> brave_data, model |-> g]
             /\ fn_out' = [articles |-> articles,
                           prompt |-> IF AnalyzeCallsModel(articles)
                                      THEN Some(_format_articles(articles)) ELSE None,
                           sentiment |-> analyze_articles(IdleWorld.artist_name,
                                                          articles, g)]
    /\ UNCHANGED reqvars

\* ranks on and around every boundary of the rank curve
RankValues ==
    {1, 2, 9, 10, 11, 12, 55, 99, 100, 101, 102, 550, 999, 1000, 1001, 1002, 5500,
     9999, 10000, 10001, 20000, 1000000}

\* the rank curve of _calculate_chartmetric_score applied to two ranks
RankCurve ==
    /\ fn_out = Pending
    /\ \E a \in RankValues, b \in RankValues :
          /\ a <= b
          /\ fn_in' = [fn |-> "rank", r1 |-> a, r2 |-> b]
          /\ fn_out' = [s1 |-> RankScore(a), s2 |-> RankScore(b)]
    /\ UNCHANGED reqvars

NextFn == NormalizeLog \/ NormalizeLinear \/ AnalyzeBundle \/ RankCurve

SpecFn == InitFn /\ [][NextFn]_vars

-----------------------------------------------------------------------------
(* Properties *)

Done == pc = "done" /\ response # Pending

\* the component of a source in the built response
ComponentKey(source) ==
    CASE source = "youtube" -> "youtube"
      [] source = "spotify" -> "spotify"
      [] source = "chartmetric" -> "chartmetric"
      [] source = "brave" -> "web_presence"

ComponentOf(source) == response.breakdown[ComponentKey(source)]

HasWarning(component) ==
    \E k \in 1..Len(response.warnings) : response.warnings[k][1] = component.name

EndsWith(text, suffix) ==
    /\ Len(text) >= Len(suffix)
    /\ SubSeq(text, Len(text) - Len(suffix) + 1, Len(text)) = suffix

RECURSIVE SumOver(_, _)
SumOver(S, f) ==
    IF S = {} THEN 0
    ELSE LET x == CHOOSE y \in S : TRUE
         IN f[x] + SumOver(S \ {x}, f)

\* C1: with a non-empty artist name every finished get_artist_score call returned a
\* response in which every required field of ArtistScoreResponse, the sentiment
\* overview included, is populated, and it never raised.
C1_AlwaysWellFormed ==
    (pc = "done" /\ artist_name # EmptyStr) =>
        /\ outcome.kind = "returned"
        /\ response # Pending
        /\ RequiredFields \subseteq DOMAIN response

\* C2: a collector whose collect raised is represented by a FAILED bundle of its own
\* type whose error message ends with the exception's message; a collector whose
\* collect returned is represented by exactly the bundle it returned; and no
\* exception that leaves get_artist_score stems from a collector.
C2_ExceptionsIsolated ==
    /\ \A i \in 1..4 :
          tasks[i].st = "done" =>
             LET c == tasks[i].collected
                 d == Data(Sources[i])
             IN /\ c.raised =>
                      /\ d.type = MetricsType(Sources[i])
                      /\ d.status = FAILED
                      /\ d.error_message # None
                      /\ EndsWith(d.error_message[1], c.msg)
                /\ ~c.raised => d = c.value
    /\ outcome.kind = "raised" => outcome.error[1] # "collector"

C2_Witness ==
    /\ pc = "done"
    /\ tasks[4].collected.raised
    /\ tasks[4].collected.msg # EmptyStr
    /\ Data("brave").error_message = Some(tasks[4].collected.msg)
    /\ tasks[1].collected.raised
    /\ ~tasks[2].collected.raised
    /\ Data("spotify").status = SUCCESS

\* C3: an empty artist name starts no collector, no sentiment analysis and no summary.
C3_EmptyNameStartsNothing ==
    (pc # "idle" /\ artist_name = EmptyStr) =>
        /\ \A s \in SourceSet : calls.collect[s] = 0
        /\ calls.analyze = 0
        /\ calls.summary = 0

\* the calls a source's bundle rests on all failed: authentication failure, entity
\* not found, network error, non-200 answer or timeout
SourceCallsFailed(source) ==
    CASE source = "youtube" -> world.youtube.search \in {"non200", "raise"}
      [] source = "spotify" -> ~world.spotify.sp \/ world.spotify.search = "error"
      [] source = "chartmetric" ->
            \/ world.chartmetric.token \in {"non200", "raise"}
            \/ world.chartmetric.search \in {"non200", "raise"}
      [] source = "brave" ->
            \/ world.brave.news = "raise"
            \/ world.brave.news = "non200" /\ world.brave.web = "non200"

\* C4: a source whose external calls failed has a component with status failed and
\* score 0, and a warning names it.
C4_FailedCallFailedComponent ==
    Done =>
        \A s \in SourceSet :
            SourceCallsFailed(s) =>
                /\ ComponentOf(s).status = "failed"
                /\ ComponentOf(s).normalized_score = 0
                /\ HasWarning(ComponentOf(s))

\* C5: a source whose bundle has status PARTIAL has a component with status partial
\* and no warning.
C5_PartialBundlePartialComponent ==
    Done =>
        \A s \in SourceSet :
            Data(s).status = PARTIAL =>
                /\ ComponentOf(s).status = "partial"
                /\ ~HasWarning(ComponentOf(s))

SourceScorers == {"spotify", "youtube", "chartmetric", "web_presence"}

\* the stats payload a scorer requires is absent (the web presence scorer requires none)
PayloadAbsent(in) ==
    CASE in.fn = "spotify" -> in.data.artist_stats = None
      [] in.fn = "youtube" -> in.data.channel_stats = None
      [] in.fn = "chartmetric" -> in.data.artist_stats = None
      [] in.fn = "web_presence" -> FALSE

DefaultReasoning(fn) ==
    CASE fn = "spotify" -> <<"Unable to retrieve Spotify data">>
      [] fn = "youtube" -> <<"Unable to retrieve YouTube data">>
      [] fn = "chartmetric" -> <<"Unable to retrieve Chartmetric data">>
      [] fn = "web_presence" -> <<"Unable to retrieve web presence data">>

Scored == "fn" \in DOMAIN fn_in /\ fn_out # Pending

\* C6: a source scorer given a FAILED bundle, or a bundle without its required stats
\* payload, returns score 0, status failed and as reasoning the bundle's error message
\* when it has a non-empty one, the source's default message when the message is
\* None or empty.
C6_FailedScorer ==
    (Scored /\ fn_in.fn \in SourceScorers
        /\ (fn_in.data.status = FAILED \/ PayloadAbsent(fn_in))) =>
        /\ fn_out.normalized_score = 0
        /\ fn_out.status = "failed"
        /\ fn_out.reasoning =
              IF fn_in.data.error_message \in {None, Some(EmptyStr)}
              THEN DefaultReasoning(fn_in.fn)
              ELSE fn_in.data.error_message[1]

C6_Witness ==
    /\ Scored
    /\ fn_in.fn = "youtube"
    /\ fn_in.data.status = PARTIAL
    /\ fn_in.data.channel_stats = None
    /\ fn_in.data.error_message = Some(<<"upstream error">>)
    /\ fn_out.status = "failed"
    /\ fn_out.reasoning = <<"upstream error">>

\* C7: every component a scorer produces has 0 <= normalized_score <= 100.
C7_ScoreInRange ==
    Scored => (fn_out.normalized_score >= 0 /\ fn_out.normalized_score <= 100000)

Averaged == "fn" \in DOMAIN fn_in /\ fn_in.fn = "components" /\ fn_out # Pending

NonFailed(components) ==
    {n \in ComponentNames : components[n].status \in {"success", "partial"}}

\* C8: _weighted_average returns the quotient of the sum of score * weight by the sum
\* of the weights, and that sum of weights, both taken over the components with
\* status success or partial, and (0, 0) when there is none; confidence_level is that
\* weight sum to the nearest hundredth, 1.00 when nothing failed, 0 when all failed.
C8_WeightedAverage ==
    Averaged =>
        LET c == fn_in.data
            nf == NonFailed(c)
            wsum == SumOver(nf, [n \in ComponentNames |-> c[n].weight])
            tsum == SumOver(nf, [n \in ComponentNames |->
                                    c[n].normalized_score * c[n].weight])
        IN /\ nf = {} => (fn_out.avg.final_score.num = 0 /\ fn_out.avg.confidence = 0)
           /\ nf # {} =>
                 /\ fn_out.avg.final_score = [num |-> tsum, den |-> wsum]
                 /\ fn_out.avg.confidence = wsum
           /\ 100 * fn_out.agg.confidence_level - wsum \in -49..50
           /\ nf = ComponentNames => fn_out.agg.confidence_level = 100
           /\ nf = {} => fn_out.agg.confidence_level = 0

C8_Witness ==
    /\ Averaged
    /\ NonFailed(fn_in.data) = {"spotify", "sentiment"}
    /\ fn_in.data["spotify"].normalized_score = 100000
    /\ fn_in.data["sentiment"].normalized_score = 33300
    /\ fn_in.data["youtube"].normalized_score = 100000
    /\ fn_out.avg.confidence = 4200
    /\ fn_out.agg.confidence_level = 42

\* C9: with every normalized score in [0, 100] the final score is in [0, 100], and
\* when some component is not failed it lies between the least and the greatest
\* score of the components that are not failed.
C9_AverageWithinRange ==
    Averaged =>
        LET c == fn_in.data
            nf == NonFailed(c)
            f == fn_out.avg.final_score
        IN /\ f.den > 0
           /\ f.num >= 0
           /\ f.num <= 100000 * f.den
           /\ fn_out.agg.final_score \in 0..1000
           /\ \A n \in nf :
                 /\ (\A m \in nf : c[n].normalized_score <= c[m].normalized_score)
                       => c[n].normalized_score * f.den <= f.num
                 /\ (\A m \in nf : c[n].normalized_score >= c[m].normalized_score)
                       => c[n].normalized_score * f.den >= f.num

C9_Witness ==
    /\ Averaged
    /\ NonFailed(fn_in.data) = {"youtube", "web_presence"}
    /\ fn_in.data["youtube"].normalized_score = 33300
    /\ fn_in.data["web_presence"].normalized_score = 100000
    /\ fn_in.data["spotify"].normalized_score = 0
    /\ fn_out.avg.final_score.num > 33300 * fn_out.avg.final_score.den
    /\ fn_out.avg.final_score.num < 100000 * fn_out.avg.final_score.den

\* C10: with the answers of the collaborators fixed, every finished invocation has
\* the response and the ending of the first one, the timestamp apart, whatever the
\* order in which the four tasks finished; and every gathered result is of the
\* type of the collector in whose slot it is.
C10_Deterministic ==
    /\ (pc = "done" /\ nreq >= 2) => Observable(response, outcome) = first
    /\ \A i \in 1..4 :
          tasks[i].st = "done" =>
             \/ IsException(results[i])
             \/ /\ "type" \in DOMAIN results[i]
                /\ results[i].type = MetricsType(Sources[i])

C10_Witness ==
    /\ pc = "done"
    /\ nreq = 2
    /\ ~inorder
    /\ response # Pending
    /\ response.data_freshness = 2
    /\ access_token # None
    /\ Observable(response, outcome) = first

\* every gathered task has finished and left its result in the list
AllCollected == \A i \in 1..4 : tasks[i].st = "done" /\ results[i] # Pending

\* C11: the sentiment analysis starts only when all four collector tasks have
\* finished; the summary call, when made, starts only when the sentiment analysis
\* has returned; calculate_final_score is called once per invocation, after the
\* collection, the analysis and (when details are asked for) the summary.
C11_Sequenced ==
    [][ /\ calls'.analyze = calls.analyze + 1 =>
               AllCollected /\ calls.analyze = 0
        /\ calls'.summary = calls.summary + 1 =>
               sentiment_data # Pending /\ calls.analyze = 1 /\ calls.summary = 0
        /\ calls'.final = calls.final + 1 =>
               /\ AllCollected
               /\ sentiment_data # Pending
               /\ calls.analyze = 1
               /\ calls.summary = (IF include_details THEN 1 ELSE 0)
               /\ calls.final = 0
        /\ (pc # "done" /\ pc' = "done") => calls'.final = 1 ]_vars

C11_Witness ==
    /\ pc = "done"
    /\ include_details
    /\ calls.analyze = 1
    /\ calls.sentiment_model = 1
    /\ calls.summary = 1
    /\ calls.final = 1

\* C12: an invocation that has started can always go on to its return, even when
\* an external collaborator never answers: no state of a running invocation is
\* one where it waits for ever.
C12_AlwaysReturns ==
    pc \in {"gather", "summary", "score"} => ENABLED Next

\* C13: within one invocation no collector's safe_collect is started more than
\* once, a failed attempt included, and once the collection is over each of the
\* four has been started exactly once.
C13_OneAttemptPerSource ==
    /\ \A s \in SourceSet : calls.collect[s] <= 1
    /\ pc \in {"summary", "score", "done"} =>
          \A s \in SourceSet : calls.collect[s] = 1
    /\ (pc = "gather" /\ AllCollected) =>
          \A s \in SourceSet : calls.collect[s] = 1

\* the collection is over, with a source that raised and one that returned failed
C13_Witness ==
    /\ pc = "done"
    /\ \A s \in SourceSet : calls.collect[s] = 1
    /\ tasks[4].collected.raised
    /\ Data("brave").status = FAILED
    /\ ~tasks[2].collected.raised
    /\ Data("spotify").status = FAILED

\* C14: handling a request leaves the process-wide state as it was: no step of an
\* invocation writes state that outlives the invocation (here the token kept by
\* the Chartmetric collector of the shared service).
C14_NoSharedStateWritten ==
    [][access_token' = access_token]_vars

\* C15: whatever the interleaving of the requests that resolve get_scoring_service,
\* at most one ArtistScoringService is constructed and all requests are handed
\* the same instance.
C15_SingleInstance ==
    /\ constructed <= 1
    /\ \A t, u \in Threads :
          (dep[t].pc = "served" /\ dep[u].pc = "served") =>
              dep[t].service = dep[u].service

\* the article list get_artist_score hands to analyze_articles
ArticlesHanded ==
    IF "news_articles" \in DOMAIN Data("brave") THEN Data("brave").news_articles
    ELSE <<>>

\* C16: when the article list handed to analyze_articles is empty, a failed
\* web-presence bundle included, the sentiment is neutral with score 0.0,
\* confidence 0.3, sample size 0 and no brand-safety concern, and the external
\* model was not called for sentiment in that request.
C16_EmptyArticlesNeutral ==
    (sentiment_data # Pending /\ ArticlesHanded = <<>>) =>
        /\ sentiment_data.overall_category = "neutral"
        /\ sentiment_data.overall_score = 0
        /\ sentiment_data.confidence = 30
        /\ sentiment_data.sample_size = 0
        /\ sentiment_data.brand_safety_concerns = <<>>
        /\ calls.analyze = 1
        /\ calls.sentiment_model = 0

C16_Witness ==
    /\ pc = "done"
    /\ Data("brave").status = FAILED
    /\ ArticlesHanded = <<>>
    /\ world.sentiment_model.kind = "ok"
    /\ sentiment_data.confidence = 30
    /\ calls.sentiment_model = 0

\* the one-line synopsis generate_artist_summary falls back to
TemplatedSynopsis ==
    artist_name
        \o <<" shows ">>
        \o (IF ComponentOf("spotify").normalized_score > 70000
            THEN <<"strong">> ELSE <<"moderate">>)
        \o <<" potential for brand partnerships based on available metrics.">>

\* C17: generate_artist_summary is called in a request exactly when include_details
\* is true; when its model call fails the request still returns a response, and
\* the summary of that response is the templated one-line synopsis.
C17_SummaryFailureTolerated ==
    /\ pc \in {"score", "done"} =>
          calls.summary = (IF include_details THEN 1 ELSE 0)
    /\ (Done /\ include_details /\ world.summary_model.kind = "raise") =>
          /\ outcome.kind = "returned"
          /\ response.ai_summary = TemplatedSynopsis

\* C18: the warnings list has exactly one entry for each component whose status is
\* failed, made of that component's name and reasoning, and no entry for a
\* component whose status is success or partial.
C18_WarningsForFailed ==
    Averaged =>
        LET c == fn_in.data
            w == fn_out.agg.warnings
            failed == {n \in ComponentNames : c[n].status = "failed"}
        IN /\ Len(w) = Cardinality(failed)
           /\ \A n \in failed :
                 Cardinality({i \in 1..Len(w) :
                     w[i] = <<c[n].name, "data unavailable", c[n].reasoning>>}) = 1
           /\ \A n \in ComponentNames \ failed :
                 \A i \in 1..Len(w) : w[i][1] # c[n].name

C18_Witness ==
    /\ Averaged
    /\ fn_in.data["spotify"].status = "failed"
    /\ fn_in.data["youtube"].status = "partial"
    /\ fn_in.data["chartmetric"].status = "success"
    /\ fn_in.data["sentiment"].status = "failed"
    /\ fn_in.data["web_presence"].status = "partial"
    /\ Len(fn_out.agg.warnings) = 2

\* the elements of a list
Elements(list) == {list[i] : i \in 1..Len(list)}

\* C19: areas_for_improvement holds the "no data available" note of every failed
\* component and, besides, the source-specific note of every component, failed or
\* not, whose score is below 50; the generic "no significant concerns" note is
\* there only when no component qualifies for either.
C19_ImprovementNotes ==
    Averaged =>
        LET c == fn_in.data
            notes == Elements(fn_out.agg.areas_for_improvement)
            failed == {n \in ComponentNames : c[n].status = "failed"}
            low == {n \in ComponentNames : c[n].normalized_score < 50000}
        IN /\ \A n \in failed : <<"No data available", n>> \in notes
           /\ \A n \in low : <<ImprovementText(n)>> \in notes
           /\ (<<"No significant concerns identified">> \in notes)
                 <=> (failed = {} /\ low = {})

Graded == "fn" \in DOMAIN fn_in /\ fn_in.fn = "grade" /\ fn_out # Pending

\* the grades from worst to best
GradeRank(grade) ==
    CASE grade = "F" -> 0
      [] grade = "D" -> 1
      [] grade = "C" -> 2
      [] grade = "C+" -> 3
      [] grade = "B" -> 4
      [] grade = "B+" -> 5
      [] grade = "A" -> 6
      [] grade = "A+" -> 7

\* the band of scores, in thousandths of a point, the table gives to a grade
InBand(grade, s) ==
    CASE grade = "A+" -> s >= 95000
      [] grade = "A" -> s >= 90000 /\ s < 95000
      [] grade = "B+" -> s >= 85000 /\ s < 90000
      [] grade = "B" -> s >= 80000 /\ s < 85000
      [] grade = "C+" -> s >= 75000 /\ s < 80000
      [] grade = "C" -> s >= 70000 /\ s < 75000
      [] grade = "D" -> s >= 60000 /\ s < 70000
      [] grade = "F" -> s < 60000
      [] OTHER -> FALSE

\* C20: _score_to_grade follows the threshold table (>=95 A+, >=90 A, >=85 B+,
\* >=80 B, >=75 C+, >=70 C, >=60 D, otherwise F) and is monotone: a lower score
\* never gets a better grade than a higher one.
C20_GradeTable ==
    Graded =>
        /\ InBand(fn_out.g1, fn_in.s1)
        /\ InBand(fn_out.g2, fn_in.s2)
        /\ fn_in.s1 < fn_in.s2 => GradeRank(fn_out.g1) <= GradeRank(fn_out.g2)

C20_Witness ==
    /\ Graded
    /\ fn_in.s1 = 89999
    /\ fn_in.s2 = 90000
    /\ fn_out.g1 = "B+"
    /\ fn_out.g2 = "A"

\* C21: when all four collectors gave failed bundles and the sentiment comes from
\* an empty article list, the response has confidence_level 0.07, grade F, four
\* warnings, and a final_score that is the default sentiment component's score
\* (15.0) itself.
C21_AllCollectorsFailed ==
    (Done /\ (\A s \in SourceSet : Data(s).status = FAILED) /\ ArticlesHanded = <<>>) =>
        /\ response.confidence_level = 7
        /\ response.score_grade = "F"
        /\ Len(response.warnings) = 4
        /\ response.breakdown["sentiment"].status = "partial"
        /\ response.breakdown["sentiment"].normalized_score = 15000
        /\ response.final_score * 100 = response.breakdown["sentiment"].normalized_score

C21_Witness ==
    /\ Done
    /\ \A s \in SourceSet : Data(s).status = FAILED
    /\ ArticlesHanded = <<>>
    /\ calls.sentiment_model = 0
    /\ response.confidence_level = 7
    /\ response.final_score = 150
    /\ Len(response.warnings) = 4

\* a Chartmetric bundle the scorer does not treat as failed
ChartmetricScored ==
    /\ Scored
    /\ fn_in.fn = "chartmetric"
    /\ fn_in.data.status # FAILED
    /\ fn_in.data.artist_stats # None

\* a sub-signal the scorer counts: a value that is there and is not zero
Present(o) == o # None /\ o[1] # 0

\* the sum of the slices of the present sub-signals: rank score * 0.50,
\* proprietary score * 0.30, monthly-listener score * 0.20
SliceSum(stats) ==
    (IF Present(stats.cm_artist_rank)
     THEN RankScore(stats.cm_artist_rank[1]) \div 2 ELSE 0)
    + (IF Present(stats.cm_artist_score) THEN stats.cm_artist_score[1] * 300 ELSE 0)
    + (IF Present(stats.sp_monthly_listeners)
       THEN (_log_normalize(stats.sp_monthly_listeners[1], 10000, 100000000) * 20)
              \div 100
       ELSE 0)

\* C22: for a Chartmetric bundle that is not failed and has stats, the component
\* score is the sum of the slices of the present sub-signals (capped at 100) with
\* status success, so a rank of 1 alone gives 50; when no sub-signal is present the
\* component has status partial and score 50, not failed.
C22_ChartmetricSlices ==
    ChartmetricScored =>
        LET stats == fn_in.data.artist_stats[1]
            any == Present(stats.cm_artist_rank) \/ Present(stats.cm_artist_score)
                      \/ Present(stats.sp_monthly_listeners)
        IN /\ any => /\ fn_out.status = "success"
                      /\ fn_out.normalized_score = Min(SliceSum(stats), 100000)
                      /\ SliceSum(stats) <= 100000 =>
                            fn_out.normalized_score = SliceSum(stats)
           /\ ~any => (fn_out.status = "partial" /\ fn_out.normalized_score = 50000)
           /\ (stats.cm_artist_rank = Some(1) /\ stats.cm_artist_score = None
                  /\ stats.sp_monthly_listeners = None) =>
                 fn_out.normalized_score = 50000

C22_Witness ==
    /\ ChartmetricScored
    /\ fn_in.data.artist_stats[1].cm_artist_rank = Some(1)
    /\ fn_in.data.artist_stats[1].cm_artist_score = None
    /\ fn_in.data.artist_stats[1].sp_monthly_listeners = None
    /\ fn_out.status = "success"
    /\ fn_out.normalized_score = 50000

Normalized == "fn" \in DOMAIN fn_in /\ fn_in.fn \in {"log", "linear"} /\ fn_out # Pending

\* what C23 asks of one call: no exception, 0 at or below min, 100 at or above max,
\* a result from 0 to 100 otherwise
NormalOutcome(r, value, min_val, max_val) ==
    /\ ~r.raised
    /\ r.value >= 0
    /\ r.value <= 100000
    /\ value <= min_val => r.value = 0
    /\ value >= max_val => r.value = 100000

\* C23: for every value and every range with 0 < min < max, _log_normalize and
\* _linear_normalize raise nothing, return exactly 0 when value <= min, exactly 100
\* when value >= max, a result within [0, 100] in between, and a larger value
\* never gets a smaller result.
C23_NormalizersTotal ==
    Normalized =>
        /\ NormalOutcome(fn_out.r1, fn_in.v1, fn_in.min_val, fn_in.max_val)
        /\ NormalOutcome(fn_out.r2, fn_in.v2, fn_in.min_val, fn_in.max_val)
        /\ fn_out.r1.value <= fn_out.r2.value

Analyzed == "fn" \in DOMAIN fn_in /\ fn_in.fn = "analyze" /\ fn_out # Pending

\* the first ten items of a list, in order
FirstTen(list) == SubSeq(list, 1, Min(Len(list), 10))

\* C24: whatever the number of articles in the web-presence bundle, the sentiment
\* analyzer is given at most the first 10 of them, in their original order, and
\* no article beyond the tenth is in the prompt of the external model.
C24_AtMostTenArticles ==
    Analyzed =>
        /\ fn_out.prompt # None =>
              fn_out.prompt[1] = FirstTen(fn_in.data.news_articles)
        /\ Len(fn_out.articles) <= 10
        /\ fn_out.articles = FirstTen(fn_in.data.news_articles)

Ranked == "fn" \in DOMAIN fn_in /\ fn_in.fn = "rank" /\ fn_out # Pending

\* C25: the rank-to-score curve never increases as the rank grows from 1 on, the
\* branch boundaries at 10, 100 and 1000 included, gives 100 for rank 1, and
\* never gives less than 20 or more than 100.
C25_RankCurveMonotone ==
    Ranked =>
        /\ fn_out.s1 >= fn_out.s2
        /\ fn_in.r1 = 1 => fn_out.s1 = 100000
        /\ fn_out.s1 >= 20000 /\ fn_out.s1 <= 100000
        /\ fn_out.s2 >= 20000 /\ fn_out.s2 <= 100000

C25_Witness ==
    /\ Ranked
    /\ fn_in.r1 = 1000
    /\ fn_in.r2 = 1001
    /\ fn_out.s1 = 60000
    /\ fn_out.s2 < 60000
    /\ fn_out.s2 > 59990

\* C26: in every response the score_grade is the grade the threshold table gives
\* to the final_score of that response, the value rounded to one decimal: a
\* response never shows a final_score of 95.0 with a grade other than A+.
C26_GradeOfShownScore ==
    Averaged =>
        /\ fn_out.agg.score_grade =
              _score_to_grade([num |-> fn_out.agg.final_score * 100, den |-> 1])
        /\ InBand(fn_out.agg.score_grade, fn_out.agg.final_score * 100)

\* the components calculate_final_score builds from a sentiment when every
\* collector bundle is a failed one
ComponentsAllCollectorsFailed(sentiment) ==
    BuildComponents(_create_failed_result("spotify", <<"e">>),
                    _create_failed_result("youtube", <<"e">>),
                    _create_failed_result("chartmetric", <<"e">>),
                    _create_failed_result("brave", <<"e">>), sentiment)

\* C27: whatever the AggregatedSentiment, the sentiment component is never failed;
\* so even with every collector failed the aggregation of calculate_final_score
\* has an available weight of at least 0.07 (confidence_level >= 0.07) and does
\* not take the all-components-failed branch of _weighted_average.
C27_SentimentNeverFailed ==
    (Scored /\ fn_in.fn = "sentiment") =>
        LET c == ComponentsAllCollectorsFailed(fn_in.data)
            avg == _weighted_average(c)
        IN /\ fn_out.status \in {"success", "partial"}
           /\ c["sentiment"] = fn_out
           /\ \A n \in ComponentNames \ {"sentiment"} : c[n].status = "failed"
           /\ avg.confidence >= 700
           /\ avg.final_score = [num |-> fn_out.normalized_score * 700, den |-> 700]
           /\ Aggregate(c).confidence_level >= 7

C27_Witness ==
    /\ Scored
    /\ fn_in.fn = "sentiment"
    /\ fn_in.data.sample_size = 0
    /\ fn_in.data.confidence = 0
    /\ fn_out.status = "partial"
    /\ _weighted_average(ComponentsAllCollectorsFailed(fn_in.data)).confidence = 700

\* the sentiment model call of the request was made and raised
SentimentCallRaised ==
    /\ ArticlesHanded # <<>>
    /\ world.sentiment_model.kind = "raise"

\* C28: when the article list is not empty and the call of the external sentiment
\* model raises, analyze_articles raises nothing and returns a neutral sentiment
\* with confidence 0.2 and a sample_size that is the number of articles; the
\* sentiment component then has status success, gives no warning, and its weight
\* 0.07 is part of confidence_level.
C28_ModelFailureNeutral ==
    /\ (sentiment_data # Pending /\ SentimentCallRaised) =>
          /\ calls.sentiment_model = 1
          /\ sentiment_data.overall_category = "neutral"
          /\ sentiment_data.overall_score = 0
          /\ sentiment_data.confidence = 20
          /\ sentiment_data.sample_size = Len(ArticlesHanded)
    /\ (Done /\ SentimentCallRaised) =>
          LET c == response.breakdown
          IN /\ c["sentiment"].status = "success"
             /\ c["sentiment"].normalized_score = 10000
             /\ ~HasWarning(c["sentiment"])
             /\ NonFailed(c) = {"sentiment", "web_presence"} =>
                   response.confidence_level = 10
             /\ "sentiment" \in NonFailed(c)
             /\ 100 * response.confidence_level - SumOver(NonFailed(c), WEIGHTS)
                   \in -49..50

C28_Witness ==
    /\ Done
    /\ SentimentCallRaised
    /\ Len(ArticlesHanded) = 2
    /\ sentiment_data.sample_size = 2
    /\ sentiment_data.confidence = 20
    /\ response.breakdown["sentiment"].status = "success"
    /\ response.confidence_level = 10

\* the step is a Chartmetric collect
ChartmetricCollectStep ==
    calls'.collect["chartmetric"] = calls.collect["chartmetric"] + 1

\* C29: once the Chartmetric collector holds an access token, no step clears or
\* replaces it and no later collect makes another token request; a collect made
\* while the API no longer accepts that token gives a failed Chartmetric bundle, in
\* that request and in every later one.
C29_TokenCachedForever ==
    [][ TruthyStr(access_token) =>
          /\ access_token' = access_token
          /\ calls'.token <= calls.token
          /\ (ChartmetricCollectStep
                 /\ ~TokenAccepted(world.chartmetric, access_token)) =>
                _handle_exception(results'[3], "chartmetric").status = FAILED ]_vars

C29_Witness ==
    /\ Done
    /\ nreq = 2
    /\ TruthyStr(access_token)
    /\ ~TokenAccepted(world.chartmetric, access_token)
    /\ world.chartmetric.search = "found"
    /\ calls.collect["chartmetric"] = 1
    /\ calls.token = 0
    /\ Data("chartmetric").status = FAILED
    /\ first.response.breakdown["chartmetric"].status = "success"

\* a sub-signal with a value of 0 replaced by an absent one
ZeroAsAbsent(o) == IF o = Some(0) THEN None ELSE o

\* C30: the Chartmetric scorer treats a sub-signal of value 0 (rank, proprietary
\* score or monthly listeners) exactly as an absent one: the component is the one
\* it gives with that sub-signal absent; when every sub-signal is absent or 0 the
\* component is partial with score 50, so a proprietary score of 0 alone scores
\* higher than any proprietary score in (0, 100] alone.
C30_ZeroIsAbsent ==
    ChartmetricScored =>
        LET stats == fn_in.data.artist_stats[1]
            without == [cm_artist_rank |-> ZeroAsAbsent(stats.cm_artist_rank),
                        cm_artist_score |-> ZeroAsAbsent(stats.cm_artist_score),
                        sp_monthly_listeners |->
                            ZeroAsAbsent(stats.sp_monthly_listeners)]
            alone == stats.cm_artist_rank = None /\ stats.sp_monthly_listeners = None
        IN /\ fn_out = _calculate_chartmetric_score(
                            [fn_in.data EXCEPT !.artist_stats = Some(without)])
           /\ without = [cm_artist_rank |-> None, cm_artist_score |-> None,
                         sp_monthly_listeners |-> None] =>
                 (fn_out.status = "partial" /\ fn_out.normalized_score = 50000
                    /\ fn_out.reasoning = <<"Limited Chartmetric data available">>)
           /\ (alone /\ stats.cm_artist_score = Some(0)) =>
                 fn_out.normalized_score = 50000
           /\ (alone /\ stats.cm_artist_score # None
                  /\ stats.cm_artist_score[1] > 0 /\ stats.cm_artist_score[1] <= 100) =>
                 (fn_out.status = "success" /\ fn_out.normalized_score < 50000)

C30_Witness ==
    /\ ChartmetricScored
    /\ fn_in.data.artist_stats[1].cm_artist_rank = Some(0)
    /\ fn_in.data.artist_stats[1].cm_artist_score = Some(0)
    /\ fn_in.data.artist_stats[1].sp_monthly_listeners = None
    /\ fn_out.status = "partial"
    /\ fn_out.normalized_score = 50000

====
